---- MODULE Spec2Model ----
(***************************************************************************)
(* A model of runner.Run (src/runner/runner.go): one run of a task on the  *)
(* cluster backend, one log watcher goroutine per container, the           *)
(* termination poll, the finish messages, the join on the WaitGroup and    *)
(* the exit-code aggregation.                                              *)
(*                                                                         *)
(* Strings are sequences of tokens (messages, stream names, ARNs) or of    *)
(* characters (environment entries), so that prefix tests, path.Base and   *)
(* strings.SplitN are computed and not assumed.  A Go pointer is a         *)
(* sequence of length 0 (nil) or 1.                                        *)
(***************************************************************************)
EXTENDS Integers, Sequences, FiniteSets, TLC

VARIABLES
    TaskName,        \* Runner.TaskName
    Overrides,       \* Runner.Overrides
    Environment,     \* Runner.Environment
    Count,           \* Runner.Count
    ContainerDefinitions, \* taskDefinitionInput.ContainerDefinitions (names)
    pc,              \* where Run is
    streamPrefix,    \* local streamPrefix
    logOptions,      \* awslogs-stream-prefix set on each container definition
    runTaskInput,    \* runTaskInput.Overrides.ContainerOverrides
    runTaskCalled,   \* svc.RunTask has been called
    runResp,         \* runResp.Tasks
    watchers,        \* the logWatcher goroutines, in spawn order
    wg,              \* the sync.WaitGroup counter
    taskARNs,        \* local taskARNs
    output,          \* output.Tasks of DescribeTasks
    fin,             \* how many containers of output the finalizing loop has passed
    err,             \* Run's outer err variable
    result,          \* what Run returned
    cancelled,       \* ctx.Done() is closed
    ecsTasks,        \* the backend's tasks
    streams,         \* the log group: stream name -> entries
    logged,          \* lines the containers themselves have logged so far
    written          \* the WriteString calls that succeeded, in order

vars == <<TaskName, Overrides, Environment, Count, ContainerDefinitions, pc,
          streamPrefix, logOptions, runTaskInput, runTaskCalled, runResp,
          watchers, wg, taskARNs, output, fin, err, result, cancelled,
          ecsTasks, streams, logged, written>>

config == <<TaskName, Overrides, Environment, Count, ContainerDefinitions>>

(***************************************************************************)
(* Bounds of the model.                                                    *)
(***************************************************************************)
MaxContainers == 2   \* containers per run: Count * number of definitions
MaxExit == 2         \* exit codes are 0..MaxExit
MaxLog == 1          \* lines the containers log themselves, in total
MaxOverrides == 2    \* length of Runner.Overrides
MaxEnv == 2          \* length of Runner.Environment
MaxTail == 3         \* lines the sole container logs when one watcher is studied

(***************************************************************************)
(* Names the model draws from.                                             *)
(***************************************************************************)
Names == <<"app", "worker", "db", "cache">>
TaskIds == <<"t1", "t2", "t3", "t4">>
ContainerIds == <<<<"c11", "c12", "c13", "c14">>, <<"c21", "c22", "c23", "c24">>,
                  <<"c31", "c32", "c33", "c34">>, <<"c41", "c42", "c43", "c44">>>>
Digits == <<"0", "1", "2", "3", "4", "5", "6", "7", "8", "9">>
Reasons == {"OutOfMemoryError", "CannotPullContainerError"}

\* the host environment behind os.LookupEnv: the variable H is set, no other
lookupEnv(key) ==
    IF key = <<"H">> THEN [value |-> <<"/", "r">>, ok |-> TRUE]
    ELSE [value |-> <<>>, ok |-> FALSE]

(***************************************************************************)
(* String helpers.                                                         *)
(***************************************************************************)
\* strings.HasPrefix
HasPrefix(s, prefix) ==
    /\ Len(s) >= Len(prefix)
    /\ SubSeq(s, 1, Len(prefix)) = prefix

\* path.Base of a non-empty path given by its segments
Base(p) == p[Len(p)]

\* %d of a natural number
RECURSIVE Itoa(_)
Itoa(n) ==
    IF n < Len(Digits) THEN <<Digits[n + 1]>>
    ELSE Itoa(n \div Len(Digits)) \o <<Digits[(n % Len(Digits)) + 1]>>

\* index of the first "=" of s, 0 when there is none
RECURSIVE IndexEq(_, _)
IndexEq(s, i) ==
    IF i > Len(s) THEN 0
    ELSE IF s[i] = "=" THEN i
    ELSE IndexEq(s, i + 1)

\* strings.SplitN, were it to split on the last "=" of s
SplitLast(s) ==
    LET eqs == {i \in 1..Len(s) : s[i] = "="}
    IN  IF eqs = {} THEN <<s>>
        ELSE LET i == CHOOSE n \in eqs : \A m \in eqs : m <= n
             IN  <<SubSeq(s, 1, i - 1), SubSeq(s, i + 1, Len(s))>>

\* strings.SplitN(s, "=", 2)
SplitN2(s) ==
    LET i == IndexEq(s, 1)
    IN  IF i = 0 THEN <<s>>
        ELSE <<SubSeq(s, 1, i - 1), SubSeq(s, i + 1, Len(s))>>

(***************************************************************************)
(* Errors and results.                                                     *)
(***************************************************************************)
NoResult == [kind |-> "none", msg |-> <<>>, code |-> 0]
Nil == [kind |-> "nil", msg |-> <<>>, code |-> 0]
Error(msg) == [kind |-> "error", msg |-> msg, code |-> 0]
exitError(name, code) ==
    [kind |-> "exitError",
     msg |-> <<"container", name, "exited with">> \o Itoa(code),
     code |-> code]

BackendError(call) == Error(<<"backend error:", call>>)

\* the run-time panic of a nil pointer dereference: Run does not return
NilDereference ==
    [kind |-> "panic",
     msg |-> <<"invalid memory address or nil pointer dereference">>,
     code |-> 0]

(***************************************************************************)
(* awsKeyValuePairForEnv: the pairs, or the error of the first bare name   *)
(* the lookup does not know; lookups are the keys handed to lookupEnv.     *)
(***************************************************************************)
\* %q of a string of plain letters
Quoted(s) == <<"\"">> \o s \o <<"\"">>

RECURSIVE awsKeyValuePairForEnvFrom(_, _, _, _)
awsKeyValuePairForEnvFrom(wanted, i, kvp, lookups) ==
    IF i > Len(wanted) THEN [kvp |-> kvp, err |-> Nil, lookups |-> lookups]
    ELSE LET parts == SplitN2(wanted[i])
             key == parts[1]
         IN  IF Len(parts) = 2
             THEN awsKeyValuePairForEnvFrom(wanted, i + 1,
                      Append(kvp, [Name |-> key, Value |-> parts[2]]), lookups)
             ELSE LET l == lookupEnv(parts[1])
                  IN  IF ~l.ok
                      THEN [kvp |-> <<>>,
                            err |-> Error(<<"missing environment variable">>
                                          \o Quoted(key)),
                            lookups |-> Append(lookups, parts[1])]
                      ELSE awsKeyValuePairForEnvFrom(wanted, i + 1,
                               Append(kvp, [Name |-> key, Value |-> l.value]),
                               Append(lookups, parts[1]))

awsKeyValuePairForEnv(wanted) == awsKeyValuePairForEnvFrom(wanted, 1, <<>>, <<>>)

(***************************************************************************)
(* The override loop of Run: the container overrides of the RunTask input, *)
(* or the first error.                                                     *)
(***************************************************************************)
AmbiguousService(n) ==
    Error(<<"No service provided for override and can't determine default service with">>
          \o Itoa(n) \o <<"container definitions">>)

\* the target of an override, were the first container definition taken
\* whenever the override names none
DefaultServiceFirst(override, defs) ==
    IF override.Service = "" /\ Len(defs) >= 1
    THEN [service |-> defs[1], err |-> Nil]
    ELSE [service |-> override.Service, err |-> Nil]

\* the target of an override, were the sole container definition taken
\* whether or not the override names a target
DefaultServiceSole(override, defs) ==
    IF Len(defs) = 1
    THEN [service |-> defs[1], err |-> Nil]
    ELSE IF override.Service = ""
    THEN [service |-> "", err |-> AmbiguousService(Len(defs))]
    ELSE [service |-> override.Service, err |-> Nil]

\* the target of an override with a command: its Service, or the sole
\* container definition when it names none
DefaultService(override, defs) ==
    IF override.Service = ""
    THEN IF Len(defs) # 1
         THEN [service |-> "", err |-> AmbiguousService(Len(defs))]
         ELSE [service |-> defs[1], err |-> Nil]
    ELSE [service |-> override.Service, err |-> Nil]

RECURSIVE ContainerOverridesFrom(_, _, _, _)
ContainerOverridesFrom(overrides, defs, wanted, acc) ==
    IF overrides = <<>> THEN [overrides |-> acc, err |-> Nil]
    ELSE LET override == Head(overrides)
             rest == Tail(overrides)
         IN  IF Len(override.Command) > 0
             THEN IF DefaultService(override, defs).err # Nil
                  THEN [overrides |-> acc, err |-> DefaultService(override, defs).err]
                  ELSE LET service == DefaultService(override, defs).service
                           env == awsKeyValuePairForEnv(wanted)
                       IN  IF env.err # Nil
                           THEN [overrides |-> acc, err |-> env.err]
                           ELSE ContainerOverridesFrom(rest, defs, wanted,
                                    Append(acc, [Command |-> override.Command,
                                                 Name |-> service,
                                                 Environment |-> env.kvp]))
             ELSE ContainerOverridesFrom(rest, defs, wanted, acc)

\* the override loop, were it to put each container override in front of
\* the earlier ones
ContainerOverridesReversed(overrides, defs, wanted) ==
    LET r == ContainerOverridesFrom(overrides, defs, wanted, <<>>)
    IN  [r EXCEPT !.overrides =
            [j \in 1..Len(r.overrides) |-> r.overrides[Len(r.overrides) + 1 - j]]]

ContainerOverrides(overrides, defs, wanted) ==
    ContainerOverridesFrom(overrides, defs, wanted, <<>>)

(***************************************************************************)
(* Tasks, containers and log streams.                                      *)
(***************************************************************************)
NewContainer(t, d, name) ==
    [ContainerArn |-> <<"arn:aws:ecs", "container", ContainerIds[t][d]>>,
     Name |-> name,
     LastStatus |-> "PENDING",
     ExitCode |-> <<>>,
     Reason |-> <<>>]

NewTask(t, defs) ==
    [TaskArn |-> <<"arn:aws:ecs", "task", TaskIds[t]>>,
     LastStatus |-> "PENDING",
     Containers |-> [d \in 1..Len(defs) |-> NewContainer(t, d, defs[d])]]

\* how a stopped task's container is described: an exit code, or no exit
\* code and a reason, or neither, or a status that is not STOPPED
ContainerOutcomes ==
    [LastStatus : {"STOPPED"}, ExitCode : {<<c>> : c \in 0..MaxExit}, Reason : {<<>>}]
    \cup [LastStatus : {"STOPPED"}, ExitCode : {<<>>}, Reason : {<<r>> : r \in Reasons}]
    \cup [LastStatus : {"STOPPED"}, ExitCode : {<<>>}, Reason : {<<>>}]
    \cup [LastStatus : {"RUNNING"}, ExitCode : {<<>>}, Reason : {<<>>}]

\* the (task, container) positions of tasks, tasks in order and containers
\* in order within each task
RECURSIVE Enumerate(_, _)
Enumerate(tasks, t) ==
    IF t > Len(tasks) THEN <<>>
    ELSE [c \in 1..Len(tasks[t].Containers) |-> <<t, c>>] \o Enumerate(tasks, t + 1)

Pairs(tasks) == Enumerate(tasks, 1)

logStreamName(logStreamPrefix, container, task) ==
    <<logStreamPrefix, container.Name, Base(task.TaskArn)>>

\* the entries of a stream; a stream nobody wrote to has none
Events(name) == IF name \in DOMAIN streams THEN streams[name] ELSE <<>>

\* the log group after one more entry on a stream
PutLogEvent(name, message) ==
    [n \in DOMAIN streams \cup {name} |->
        IF n = name THEN Append(Events(n), message) ELSE Events(n)]

finishedPrefix(containerId) == <<"Container", containerId, "exited with">>

\* the Printer closure, were it to stop on the finish message of any container
PrinterAnyContainer(containerId, message) ==
    ~(Len(message) >= 3 /\ message[1] = "Container" /\ message[3] = "exited with")

\* the Printer closure, were it to stop on nothing but a whole finish message
PrinterWholeMessage(containerId, message) ==
    \A n \in 0..MaxExit : message # finishedPrefix(containerId) \o Itoa(n)

\* the Printer closure of a watcher: FALSE stops the watcher
Printer(containerId, message) ==
    ~HasPrefix(message, finishedPrefix(containerId))

\* the finish message, were it to name the container by its Name
finishedMessageByName(container) ==
    <<"Container", container.Name, "exited with">>
        \o Itoa(container.ExitCode[1])

finishedMessage(container) ==
    <<"Container", Base(container.ContainerArn), "exited with">>
        \o Itoa(container.ExitCode[1])

\* writeContainerFinishedMessage, were it to report a missing exit code in
\* words of its own
writeContainerFinishedMessageOwnWords(container) ==
    IF container.LastStatus # "STOPPED"
    THEN Error(<<"expected container to be STOPPED, got", container.LastStatus>>)
    ELSE IF container.ExitCode = <<>>
    THEN Error(<<"container has no exit code">>)
    ELSE Nil

\* writeContainerFinishedMessage, were it not to look at the status
writeContainerFinishedMessageAnyStatus(container) ==
    IF container.ExitCode = <<>>
    THEN IF container.Reason = <<>> THEN NilDereference
         ELSE Error(<<container.Reason[1]>>)
    ELSE Nil

\* writeContainerFinishedMessage up to its call of WriteString: the error
\* it returns without writing, the panic of *container.Reason on a nil
\* Reason, or Nil
writeContainerFinishedMessage(container) ==
    IF container.LastStatus # "STOPPED"
    THEN Error(<<"expected container to be STOPPED, got", container.LastStatus>>)
    ELSE IF container.ExitCode = <<>>
    THEN IF container.Reason = <<>> THEN NilDereference
         ELSE Error(<<container.Reason[1]>>)
    ELSE Nil

\* the exit-code loop, were it to keep the last non-zero code it meets
RECURSIVE LastNonZero(_, _, _)
LastNonZero(tasks, pairs, otherwise) ==
    IF pairs = <<>> THEN otherwise
    ELSE LET container == tasks[Head(pairs)[1]].Containers[Head(pairs)[2]]
             later == LastNonZero(tasks, Tail(pairs), otherwise)
         IN  IF later.kind = "exitError" THEN later
             ELSE IF container.ExitCode[1] # 0
             THEN exitError(container.Name, container.ExitCode[1])
             ELSE later

\* the exit-code loop at the end of Run
RECURSIVE FirstNonZero(_, _, _)
FirstNonZero(tasks, pairs, otherwise) ==
    IF pairs = <<>> THEN otherwise
    ELSE LET container == tasks[Head(pairs)[1]].Containers[Head(pairs)[2]]
         IN  IF container.ExitCode[1] # 0
             THEN exitError(container.Name, container.ExitCode[1])
             ELSE FirstNonZero(tasks, Tail(pairs), otherwise)

\* a watcher started with a context of its own instead of Run's
newWatcherDetached(prefix, container, task) ==
    [LogStreamName |-> logStreamName(prefix, container, task),
     containerId |-> Base(container.ContainerArn),
     ctx |-> "background",
     state |-> "watching",
     next |-> 1,
     printed |-> <<>>,
     err |-> Nil]

\* a watcher whose stream name is built from r.TaskName instead of the
\* prefix of this run
newWatcherTaskName(prefix, container, task) ==
    [LogStreamName |-> logStreamName(TaskName, container, task),
     containerId |-> Base(container.ContainerArn),
     ctx |-> "ctx",
     state |-> "watching",
     next |-> 1,
     printed |-> <<>>,
     err |-> Nil]

newWatcher(prefix, container, task) ==
    [LogStreamName |-> logStreamName(prefix, container, task),
     containerId |-> Base(container.ContainerArn),
     ctx |-> "ctx",
     state |-> "watching",
     next |-> 1,
     printed |-> <<>>,
     err |-> Nil]

(***************************************************************************)
(* Initial states: the Runner's fields, before Run is called.              *)
(***************************************************************************)
SeqsUpTo(S, n) == UNION {[1..k -> S] : k \in 0..n}

OverrideSpecs ==
    [Service : {"", Names[2]},
     Command : {<<>>, <<"./migrate">>, <<"./seed", "all">>}]

\* H (set on the host), M (not set), F=b, F= and F=b=r
EnvEntries ==
    {<<"H">>, <<"M">>, <<"F", "=", "b">>, <<"F", "=">>, <<"F", "=", "b", "=", "r">>}

Shapes ==
    {s \in (1..MaxContainers) \X (1..MaxContainers) : s[1] * s[2] <= MaxContainers}

InitRun ==
    /\ pc = "Parsing"
    /\ streamPrefix = ""
    /\ logOptions = <<>>
    /\ runTaskInput = <<>>
    /\ runTaskCalled = FALSE
    /\ runResp = <<>>
    /\ watchers = <<>>
    /\ wg = 0
    /\ taskARNs = <<>>
    /\ output = <<>>
    /\ fin = 0
    /\ err = Nil
    /\ result = NoResult
    /\ cancelled = FALSE
    /\ ecsTasks = <<>>
    /\ streams = <<>>
    /\ logged = 0
    /\ written = <<>>

\* any configuration within the bounds
InitSubmit ==
    /\ TaskName \in {"", "job"}
    /\ Overrides \in SeqsUpTo(OverrideSpecs, MaxOverrides)
    /\ Environment \in SeqsUpTo(EnvEntries, MaxEnv)
    /\ \E s \in Shapes :
          /\ Count = s[1]
          /\ ContainerDefinitions = [d \in 1..s[2] |-> Names[d]]
    /\ InitRun

\* a run, named or not, with at most one override, for the sole container,
\* and one environment entry, which resolves
Init ==
    /\ TaskName \in {"", "job"}
    /\ Overrides \in {<<>>, <<[Service |-> "", Command |-> <<"./migrate">>]>>}
    /\ Environment = <<<<"F", "=", "b">>>>
    /\ \E s \in Shapes :
          /\ Count = s[1]
          /\ ContainerDefinitions = [d \in 1..s[2] |-> Names[d]]
    /\ InitRun

(***************************************************************************)
(* Run, from its call to the call of RunTask.                              *)
(***************************************************************************)
Return(p, e) ==
    /\ pc' = p
    /\ result' = e

ParseOK ==
    /\ pc = "Parsing"
    /\ \E generated \in {"run_task_1"} :
          streamPrefix' = IF TaskName = "" THEN generated ELSE TaskName
    /\ pc' = "CreatingLogGroup"
    /\ UNCHANGED <<config, logOptions, runTaskInput, runTaskCalled, runResp,
                   watchers, wg, taskARNs, output, fin, err, result, cancelled,
                   ecsTasks, streams, logged, written>>

ParseFail ==
    /\ pc = "Parsing"
    /\ err' = Error(<<"parse error">>)
    /\ Return("Failed", err')
    /\ UNCHANGED <<config, streamPrefix, logOptions, runTaskInput, runTaskCalled,
                   runResp, watchers, wg, taskARNs, output, fin, cancelled,
                   ecsTasks, streams, logged, written>>

CreateLogGroupOK ==
    /\ pc = "CreatingLogGroup"
    /\ logOptions' = [d \in 1..Len(ContainerDefinitions) |-> streamPrefix]
    /\ pc' = "Registering"
    /\ UNCHANGED <<config, streamPrefix, runTaskInput, runTaskCalled, runResp,
                   watchers, wg, taskARNs, output, fin, err, result, cancelled,
                   ecsTasks, streams, logged, written>>

CreateLogGroupFail ==
    /\ pc = "CreatingLogGroup"
    /\ Return("Failed", BackendError("CreateLogGroup"))
    /\ UNCHANGED <<config, streamPrefix, logOptions, runTaskInput, runTaskCalled,
                   runResp, watchers, wg, taskARNs, output, fin, err, cancelled,
                   ecsTasks, streams, logged, written>>

RegisterTaskDefinitionOK ==
    /\ pc = "Registering"
    /\ err' = Nil
    /\ pc' = "Resolving"
    /\ UNCHANGED <<config, streamPrefix, logOptions, runTaskInput, runTaskCalled,
                   runResp, watchers, wg, taskARNs, output, fin, result, cancelled,
                   ecsTasks, streams, logged, written>>

RegisterTaskDefinitionFail ==
    /\ pc = "Registering"
    /\ err' = BackendError("RegisterTaskDefinition")
    /\ Return("Failed", err')
    /\ UNCHANGED <<config, streamPrefix, logOptions, runTaskInput, runTaskCalled,
                   runResp, watchers, wg, taskARNs, output, fin, cancelled,
                   ecsTasks, streams, logged, written>>

\* the RunTask input and the loop over r.Overrides
BuildRunTaskInput ==
    /\ pc = "Resolving"
    /\ LET r == ContainerOverrides(Overrides, ContainerDefinitions, Environment)
       IN  IF r.err # Nil
           THEN /\ Return("Failed", r.err)
                /\ UNCHANGED runTaskInput
           ELSE /\ runTaskInput' = r.overrides
                /\ pc' = "Submitting"
                /\ UNCHANGED result
    /\ UNCHANGED <<config, streamPrefix, logOptions, runTaskCalled, runResp,
                   watchers, wg, taskARNs, output, fin, err, cancelled,
                   ecsTasks, streams, logged, written>>

RunTaskOK ==
    /\ pc = "Submitting"
    /\ runTaskCalled' = TRUE
    /\ ecsTasks' = [t \in 1..Count |-> NewTask(t, ContainerDefinitions)]
    /\ runResp' = ecsTasks'
    /\ err' = Nil
    /\ pc' = "Running"
    /\ UNCHANGED <<config, streamPrefix, logOptions, runTaskInput, watchers, wg,
                   taskARNs, output, fin, result, cancelled, streams, logged, written>>

RunTaskFail ==
    /\ pc = "Submitting"
    /\ runTaskCalled' = TRUE
    /\ err' = BackendError("RunTask")
    /\ Return("Failed", Error(<<"Unable to run task:">> \o err'.msg))
    /\ UNCHANGED <<config, streamPrefix, logOptions, runTaskInput, runResp,
                   watchers, wg, taskARNs, output, fin, cancelled, ecsTasks,
                   streams, logged, written>>

\* the run context is cancelled from outside
Cancel ==
    /\ ~cancelled
    /\ cancelled' = TRUE
    /\ UNCHANGED <<config, pc, streamPrefix, logOptions, runTaskInput,
                   runTaskCalled, runResp, watchers, wg, taskARNs, output, fin,
                   err, result, ecsTasks, streams, logged, written>>

NextSubmit ==
    \/ ParseOK
    \/ ParseFail
    \/ CreateLogGroupOK
    \/ CreateLogGroupFail
    \/ RegisterTaskDefinitionOK
    \/ RegisterTaskDefinitionFail
    \/ BuildRunTaskInput
    \/ RunTaskOK
    \/ RunTaskFail
    \/ Cancel

SubmitSpec == InitSubmit /\ [][NextSubmit]_vars

(***************************************************************************)
(* The backend: tasks stop, containers log.                                *)
(***************************************************************************)
\* a stopped task as DescribeTasks reports it
Described(task, outcomes) ==
    [task EXCEPT
        !.Containers = [c \in 1..Len(task.Containers) |->
            [task.Containers[c] EXCEPT
                !.LastStatus = outcomes[c].LastStatus,
                !.ExitCode = outcomes[c].ExitCode,
                !.Reason = outcomes[c].Reason]]]

TaskStops(t) ==
    /\ pc \in {"Running", "Starting", "AwaitingTermination"}
    /\ ecsTasks[t].LastStatus # "STOPPED"
    /\ ecsTasks' = [ecsTasks EXCEPT ![t].LastStatus = "STOPPED"]
    /\ UNCHANGED <<config, pc, streamPrefix, logOptions, runTaskInput,
                   runTaskCalled, runResp, watchers, wg, taskARNs, output, fin,
                   err, result, cancelled, streams, logged, written>>

\* what a container may print: a plain line, a line that starts like its own
\* finish message, or the text of another container's finish message
Lines(t, c) ==
    {<<"hello">>}
    \cup {<<"Container", Base(ecsTasks[t].Containers[c].ContainerArn),
            "exited with", "status", "1">>}
    \cup {<<"Container", Base(ecsTasks[p[1]].Containers[p[2]].ContainerArn),
            "exited with", "0">> :
            p \in {q \in {Pairs(ecsTasks)[i] : i \in 1..Len(Pairs(ecsTasks))} :
                       q # <<t, c>>}}

\* the awslogs driver: prefix/container name/task id, with the prefix set in
\* the container definition's log configuration
ContainerLogsUpTo(t, c, max) ==
    /\ pc \in {"Running", "Starting", "AwaitingTermination", "Describing",
               "Finalizing", "Joining"}
    /\ logged < max
    /\ logged' = logged + 1
    /\ \E line \in Lines(t, c) :
          streams' = PutLogEvent(
              logStreamName(logOptions[c], ecsTasks[t].Containers[c], ecsTasks[t]),
              line)
    /\ UNCHANGED <<config, pc, streamPrefix, logOptions, runTaskInput,
                   runTaskCalled, runResp, watchers, wg, taskARNs, output, fin,
                   err, result, cancelled, ecsTasks, written>>

ContainerLogs(t, c) == ContainerLogsUpTo(t, c, MaxLog)

(***************************************************************************)
(* The watcher goroutines.                                                 *)
(***************************************************************************)
\* the goroutine, were it to assign Watch's error to Run's err
GoroutineReturnsIntoErr(e) ==
    /\ wg' = wg - 1
    /\ err' = IF e # Nil THEN e ELSE err

\* go func() { defer wg.Done(); if err := watcher.Watch(ctx); err != nil {log} }
\* when Watch returns e
GoroutineReturns(e) ==
    /\ wg' = wg - 1
    /\ UNCHANGED err

\* Watch fetches the next entry and hands it to the Printer
WatchEvent(i) ==
    /\ i \in DOMAIN watchers
    /\ watchers[i].state = "watching"
    /\ watchers[i].next <= Len(Events(watchers[i].LogStreamName))
    /\ LET ev == Events(watchers[i].LogStreamName)[watchers[i].next]
       IN  IF Printer(watchers[i].containerId, ev)
           THEN /\ watchers' = [watchers EXCEPT ![i].next = @ + 1,
                                                ![i].printed = Append(@, ev)]
                /\ UNCHANGED <<wg, err>>
           ELSE /\ watchers' = [watchers EXCEPT ![i].state = "finished"]
                /\ GoroutineReturns(Nil)
    /\ UNCHANGED <<config, pc, streamPrefix, logOptions, runTaskInput,
                   runTaskCalled, runResp, taskARNs, output, fin, result,
                   cancelled, ecsTasks, streams, logged, written>>

\* a fetch fails: Watch returns the error
WatchFails(i) ==
    /\ i \in DOMAIN watchers
    /\ watchers[i].state = "watching"
    /\ watchers' = [watchers EXCEPT ![i].state = "failed",
                                    ![i].err = BackendError("FilterLogEvents")]
    /\ GoroutineReturns(watchers'[i].err)
    /\ UNCHANGED <<config, pc, streamPrefix, logOptions, runTaskInput,
                   runTaskCalled, runResp, taskARNs, output, fin, result,
                   cancelled, ecsTasks, streams, logged, written>>

\* the watcher's context is done: Watch returns
WatchCancelled(i) ==
    /\ i \in DOMAIN watchers
    /\ watchers[i].state = "watching"
    /\ watchers[i].ctx = "ctx"
    /\ cancelled
    /\ watchers' = [watchers EXCEPT ![i].state = "cancelled"]
    /\ GoroutineReturns(Nil)
    /\ UNCHANGED <<config, pc, streamPrefix, logOptions, runTaskInput,
                   runTaskCalled, runResp, taskARNs, output, fin, result,
                   cancelled, ecsTasks, streams, logged, written>>

(***************************************************************************)
(* Run, from the RunTask response to its return.                           *)
(***************************************************************************)
\* the spawn loop, were it to leave out wg.Add(1)
WaitGroupAddForgotten ==
    /\ pc = "Running"
    /\ Len(watchers) < Len(Pairs(runResp))
    /\ pc' = "Starting"
    /\ UNCHANGED <<config, streamPrefix, logOptions, runTaskInput, runTaskCalled,
                   runResp, watchers, wg, taskARNs, output, fin, err, result,
                   cancelled, ecsTasks, streams, logged, written>>

\* one turn of the spawn loop up to the go statement: the next container's
\* watcher is built and wg.Add(1) is called
WaitGroupAdd ==
    /\ pc = "Running"
    /\ Len(watchers) < Len(Pairs(runResp))
    /\ wg' = wg + 1
    /\ pc' = "Starting"
    /\ UNCHANGED <<config, streamPrefix, logOptions, runTaskInput, runTaskCalled,
                   runResp, watchers, taskARNs, output, fin, err, result,
                   cancelled, ecsTasks, streams, logged, written>>

\* the go statement: the watcher's goroutine runs from here on, while the
\* loop goes to the next container
GoWatcher ==
    /\ pc = "Starting"
    /\ LET p == Pairs(runResp)[Len(watchers) + 1]
       IN  watchers' = Append(watchers,
               newWatcher(streamPrefix, runResp[p[1]].Containers[p[2]], runResp[p[1]]))
    /\ pc' = "Running"
    /\ UNCHANGED <<config, streamPrefix, logOptions, runTaskInput, runTaskCalled,
                   runResp, wg, taskARNs, output, fin, err, result, cancelled,
                   ecsTasks, streams, logged, written>>

\* the spawn loop is through: the task ARNs for the poll
CollectTaskARNs ==
    /\ pc = "Running"
    /\ Len(watchers) = Len(Pairs(runResp))
    /\ taskARNs' = [t \in 1..Len(runResp) |-> runResp[t].TaskArn]
    /\ pc' = "AwaitingTermination"
    /\ UNCHANGED <<config, streamPrefix, logOptions, runTaskInput, runTaskCalled,
                   runResp, watchers, wg, output, fin, err, result, cancelled,
                   ecsTasks, streams, logged, written>>

\* the poll, were it to return success without any task having stopped
WaitUntilTasksStoppedOKEarly ==
    /\ pc = "AwaitingTermination"
    /\ err' = Nil
    /\ pc' = "Describing"
    /\ UNCHANGED <<config, streamPrefix, logOptions, runTaskInput, runTaskCalled,
                   runResp, watchers, wg, taskARNs, output, fin, result,
                   cancelled, ecsTasks, streams, logged, written>>

\* the poll returns success: every task has stopped
WaitUntilTasksStoppedOK ==
    /\ pc = "AwaitingTermination"
    /\ \A t \in 1..Len(ecsTasks) : ecsTasks[t].LastStatus = "STOPPED"
    /\ err' = Nil
    /\ pc' = "Describing"
    /\ UNCHANGED <<config, streamPrefix, logOptions, runTaskInput, runTaskCalled,
                   runResp, watchers, wg, taskARNs, output, fin, result,
                   cancelled, ecsTasks, streams, logged, written>>

\* the poll's error, were Run to go on after it
WaitUntilTasksStoppedFailIgnored ==
    /\ pc = "AwaitingTermination"
    /\ err' = BackendError("WaitUntilTasksStopped")
    /\ pc' = "Describing"
    /\ UNCHANGED <<config, streamPrefix, logOptions, runTaskInput, runTaskCalled,
                   runResp, watchers, wg, taskARNs, output, fin, result,
                   cancelled, ecsTasks, streams, logged, written>>

WaitUntilTasksStoppedFail ==
    /\ pc = "AwaitingTermination"
    /\ err' = BackendError("WaitUntilTasksStopped")
    /\ Return("Failed", err')
    /\ UNCHANGED <<config, streamPrefix, logOptions, runTaskInput, runTaskCalled,
                   runResp, watchers, wg, taskARNs, output, fin, cancelled,
                   ecsTasks, streams, logged, written>>

\* the backend describes each container of the stopped tasks with one of
\* the outcomes
DescribeTasksOK ==
    /\ pc = "Describing"
    /\ \E outcomes \in [1..Len(ecsTasks) -> [1..Len(ContainerDefinitions) -> ContainerOutcomes]] :
          output' = [t \in 1..Len(ecsTasks) |-> Described(ecsTasks[t], outcomes[t])]
    /\ err' = Nil
    /\ fin' = 0
    /\ pc' = IF Pairs(output') = <<>> THEN "Joining" ELSE "Finalizing"
    /\ UNCHANGED <<config, streamPrefix, logOptions, runTaskInput, runTaskCalled,
                   runResp, watchers, wg, taskARNs, result, cancelled, ecsTasks,
                   streams, logged, written>>

DescribeTasksFail ==
    /\ pc = "Describing"
    /\ err' = BackendError("DescribeTasks")
    /\ Return("Failed", err')
    /\ UNCHANGED <<config, streamPrefix, logOptions, runTaskInput, runTaskCalled,
                   runResp, watchers, wg, taskARNs, output, fin, cancelled,
                   ecsTasks, streams, logged, written>>

\* the task and the container the finalizing loop is at
FinTask == output[Pairs(output)[fin + 1][1]]
FinContainer == FinTask.Containers[Pairs(output)[fin + 1][2]]

\* the finalizing loop, were it to go on to the next container after an
\* error of writeContainerFinishedMessage
FinishedMessageSkipped ==
    /\ pc = "Finalizing"
    /\ writeContainerFinishedMessage(FinContainer).kind = "error"
    /\ fin' = fin + 1
    /\ pc' = IF fin' = Len(Pairs(output)) THEN "Joining" ELSE "Finalizing"
    /\ UNCHANGED <<config, streamPrefix, logOptions, runTaskInput, runTaskCalled,
                   runResp, watchers, wg, taskARNs, output, err, result,
                   cancelled, ecsTasks, streams, logged, written>>

\* writeContainerFinishedMessage returns an error before writing
FinishedMessageRefused ==
    /\ pc = "Finalizing"
    /\ writeContainerFinishedMessage(FinContainer).kind = "error"
    /\ Return("Failed", writeContainerFinishedMessage(FinContainer))
    /\ UNCHANGED <<config, streamPrefix, logOptions, runTaskInput, runTaskCalled,
                   runResp, watchers, wg, taskARNs, output, fin, err, cancelled,
                   ecsTasks, streams, logged, written>>

\* writeContainerFinishedMessage panics: Run is unwound without returning,
\* and the watcher goroutines are left as they are
FinishedMessagePanics ==
    /\ pc = "Finalizing"
    /\ writeContainerFinishedMessage(FinContainer).kind = "panic"
    /\ Return("Panicked", writeContainerFinishedMessage(FinContainer))
    /\ UNCHANGED <<config, streamPrefix, logOptions, runTaskInput, runTaskCalled,
                   runResp, watchers, wg, taskARNs, output, fin, err, cancelled,
                   ecsTasks, streams, logged, written>>

\* writeContainerFinishedMessage writes; the loop goes on, or ends and Run
\* goes to wg.Wait
FinishedMessageWritten ==
    /\ pc = "Finalizing"
    /\ writeContainerFinishedMessage(FinContainer) = Nil
    /\ streams' = PutLogEvent(logStreamName(streamPrefix, FinContainer, FinTask),
                              finishedMessage(FinContainer))
    /\ written' = Append(written,
                          [stream |-> logStreamName(streamPrefix, FinContainer, FinTask),
                           message |-> finishedMessage(FinContainer)])
    /\ fin' = fin + 1
    /\ pc' = IF fin' = Len(Pairs(output)) THEN "Joining" ELSE "Finalizing"
    /\ UNCHANGED <<config, streamPrefix, logOptions, runTaskInput, runTaskCalled,
                   runResp, watchers, wg, taskARNs, output, err, result,
                   cancelled, ecsTasks, logged>>

\* WriteString fails
FinishedMessageFails ==
    /\ pc = "Finalizing"
    /\ writeContainerFinishedMessage(FinContainer) = Nil
    /\ Return("Failed", BackendError("PutLogEvents"))
    /\ UNCHANGED <<config, streamPrefix, logOptions, runTaskInput, runTaskCalled,
                   runResp, watchers, wg, taskARNs, output, fin, err, cancelled,
                   ecsTasks, streams, logged, written>>

\* Run, were it not to wait for the watchers
WaitGroupSkipped == TRUE

\* wg.Wait() returns
WaitGroupDone == wg = 0

Join ==
    /\ pc = "Joining"
    /\ WaitGroupDone
    /\ pc' = "Aggregating"
    /\ UNCHANGED <<config, streamPrefix, logOptions, runTaskInput, runTaskCalled,
                   runResp, watchers, wg, taskARNs, output, fin, err, result,
                   cancelled, ecsTasks, streams, logged, written>>

\* the exit-code loop and the final return err
Aggregate ==
    /\ pc = "Aggregating"
    /\ Return("Done", FirstNonZero(output, Pairs(output), err))
    /\ UNCHANGED <<config, streamPrefix, logOptions, runTaskInput, runTaskCalled,
                   runResp, watchers, wg, taskARNs, output, fin, err, cancelled,
                   ecsTasks, streams, logged, written>>

Next ==
    \/ ParseOK
    \/ ParseFail
    \/ CreateLogGroupOK
    \/ CreateLogGroupFail
    \/ RegisterTaskDefinitionOK
    \/ RegisterTaskDefinitionFail
    \/ BuildRunTaskInput
    \/ RunTaskOK
    \/ RunTaskFail
    \/ WaitGroupAdd
    \/ GoWatcher
    \/ CollectTaskARNs
    \/ WaitUntilTasksStoppedOK
    \/ WaitUntilTasksStoppedFail
    \/ DescribeTasksOK
    \/ DescribeTasksFail
    \/ FinishedMessageRefused
    \/ FinishedMessagePanics
    \/ FinishedMessageWritten
    \/ FinishedMessageFails
    \/ Join
    \/ Aggregate
    \/ Cancel
    \/ \E t \in 1..Len(ecsTasks) : TaskStops(t)
    \/ \E t \in 1..Len(ecsTasks) :
          \E c \in 1..Len(ecsTasks[t].Containers) : ContainerLogs(t, c)
    \/ \E i \in 1..Len(watchers) : WatchEvent(i)
    \/ \E i \in 1..Len(watchers) : WatchFails(i)
    \/ \E i \in 1..Len(watchers) : WatchCancelled(i)

Spec == Init /\ [][Next]_vars

\* a run of one task with one container and no overrides, whose container
\* logs up to MaxTail lines
InitTail ==
    /\ TaskName = "job"
    /\ Overrides = <<>>
    /\ Environment = <<>>
    /\ Count = 1
    /\ ContainerDefinitions = <<Names[1]>>
    /\ InitRun

NextTail ==
    \/ ParseOK
    \/ ParseFail
    \/ CreateLogGroupOK
    \/ CreateLogGroupFail
    \/ RegisterTaskDefinitionOK
    \/ RegisterTaskDefinitionFail
    \/ BuildRunTaskInput
    \/ RunTaskOK
    \/ RunTaskFail
    \/ WaitGroupAdd
    \/ GoWatcher
    \/ CollectTaskARNs
    \/ WaitUntilTasksStoppedOK
    \/ WaitUntilTasksStoppedFail
    \/ DescribeTasksOK
    \/ DescribeTasksFail
    \/ FinishedMessageRefused
    \/ FinishedMessagePanics
    \/ FinishedMessageWritten
    \/ FinishedMessageFails
    \/ Join
    \/ Aggregate
    \/ Cancel
    \/ \E t \in 1..Len(ecsTasks) : TaskStops(t)
    \/ \E t \in 1..Len(ecsTasks) :
          \E c \in 1..Len(ecsTasks[t].Containers) : ContainerLogsUpTo(t, c, MaxTail)
    \/ \E i \in 1..Len(watchers) : WatchEvent(i)
    \/ \E i \in 1..Len(watchers) : WatchFails(i)
    \/ \E i \in 1..Len(watchers) : WatchCancelled(i)

TailSpec == InitTail /\ [][NextTail]_vars

\* the scheduler runs every goroutine that can take a step: a watcher with
\* an entry to read reads it, a watcher whose context is done returns, and
\* Run goes on from wg.Wait and through the exit-code loop
Fairness ==
    /\ \A i \in 1..MaxContainers :
          WF_vars(WatchEvent(i)) /\ WF_vars(WatchCancelled(i))
    /\ WF_vars(Join)
    /\ WF_vars(Aggregate)

FairSpec == Init /\ [][Next]_vars /\ Fairness

(***************************************************************************)
(* What the claims speak of.                                               *)
(***************************************************************************)
Returned == pc \in {"Done", "Failed"}

\* the containers of the final description, in enumeration order
Final == [i \in 1..Len(Pairs(output)) |->
             output[Pairs(output)[i][1]].Containers[Pairs(output)[i][2]]]
FinalTask(i) == output[Pairs(output)[i][1]]

\* positions of the final description whose exit code is not zero
NonZero == {i \in 1..Len(Final) : Final[i].ExitCode # <<>> /\ Final[i].ExitCode[1] # 0}

Least(S) == CHOOSE i \in S : \A j \in S : i <= j

WatcherStopped(i) == watchers[i].state # "watching"

(***************************************************************************)
(* C1: when Run returns from the exit-code loop, it returns the exit code  *)
(* of the first container of the final description, in enumeration order,  *)
(* whose exit code is not zero, whatever the later containers' codes are;   *)
(* when every exit code is zero it returns no error.                        *)
(***************************************************************************)
C1_FirstNonZeroWins ==
    pc = "Done" =>
        IF NonZero = {}
        THEN result = Nil
        ELSE /\ result.kind = "exitError"
             /\ result.code = Final[Least(NonZero)].ExitCode[1]
             /\ result.msg = <<"container", Final[Least(NonZero)].Name, "exited with">>
                                 \o Itoa(result.code)

\* two non-zero codes, the later one smaller than the first
C1_Witness ==
    /\ pc = "Done"
    /\ \E i, j \in NonZero : i < j /\ Final[j].ExitCode[1] < Final[i].ExitCode[1]

(***************************************************************************)
(* C2: when Run is at wg.Wait or beyond, every finish message of the final *)
(* description has been written; when Run is at the exit-code loop or has  *)
(* returned from it, the WaitGroup is at zero and every watcher has        *)
(* stopped.                                                                *)
(***************************************************************************)
C2_FinalizeThenJoinThenAggregate ==
    /\ pc \in {"Joining", "Aggregating", "Done"} =>
          /\ Len(written) = Len(Final)
          /\ \A i \in 1..Len(Final) :
                written[i] = [stream |-> logStreamName(streamPrefix, Final[i], FinalTask(i)),
                              message |-> finishedMessage(Final[i])]
    /\ pc \in {"Aggregating", "Done"} =>
          /\ wg = 0
          /\ \A i \in 1..Len(watchers) : WatcherStopped(i)

\* Run returned from the exit-code loop after two watchers found their
\* finish messages
C2_Witness ==
    /\ pc = "Done"
    /\ Len(watchers) >= 2
    /\ \A i \in 1..Len(watchers) : watchers[i].state = "finished"

(***************************************************************************)
(* C3: once every finish message has been written, every watcher stops,    *)
(* and a watcher that neither failed a fetch nor was cancelled stops at an *)
(* entry of its own stream that starts with its own container's finish     *)
(* prefix; Run then gets through wg.Wait and returns.  No container needs  *)
(* to have logged anything.                                                *)
(***************************************************************************)
AllWritten == pc \in {"Joining", "Aggregating", "Done"}

AtSentinel(i) ==
    /\ i \in DOMAIN watchers
    /\ watchers[i].state = "finished"
    /\ watchers[i].next <= Len(Events(watchers[i].LogStreamName))
    /\ HasPrefix(Events(watchers[i].LogStreamName)[watchers[i].next],
                 finishedPrefix(watchers[i].containerId))

GaveUp(i) ==
    /\ i \in DOMAIN watchers
    /\ watchers[i].state \in {"failed", "cancelled"}

C3_EveryWatcherFindsItsSentinel ==
    /\ \A i \in 1..MaxContainers :
          (AllWritten /\ i \in DOMAIN watchers)
              ~> (AtSentinel(i) \/ GaveUp(i))
    /\ AllWritten ~> (pc = "Done")

\* Run returned, no container logged a line, no fetch failed, nothing was
\* cancelled, and every watcher stopped at its finish message
C3_Witness ==
    /\ pc = "Done"
    /\ logged = 0
    /\ ~cancelled
    /\ Len(watchers) >= 2
    /\ \A i \in 1..Len(watchers) : AtSentinel(i)

(***************************************************************************)
(* C5: once the run context is cancelled, every watcher that was spawned   *)
(* stops, whether or not its finish message is ever written, and a Run     *)
(* that waits at wg.Wait gets past it.                                     *)
(***************************************************************************)
C5_CancellationReachesWatchers ==
    /\ \A i \in 1..MaxContainers :
          (cancelled /\ i \in DOMAIN watchers)
              ~> (i \in DOMAIN watchers /\ WatcherStopped(i))
    /\ (cancelled /\ pc = "Joining") ~> (pc # "Joining")

\* Run got past wg.Wait because the cancellation stopped both watchers
C5_Witness ==
    /\ pc = "Aggregating"
    /\ cancelled
    /\ Len(watchers) >= 2
    /\ \A i \in 1..Len(watchers) : watchers[i].state = "cancelled"

(***************************************************************************)
(* C4: once the context is cancelled while Run is in its RunTask call or   *)
(* in its WaitUntilTasksStopped call, the only step Run takes from there   *)
(* is to return a cancellation error.                                      *)
(***************************************************************************)
C4_CancelAbortsSubmitAndWait ==
    [][(cancelled /\ pc \in {"Submitting", "AwaitingTermination"}) =>
          \/ pc' = pc
          \/ pc' = "Failed" /\ result' = Error(<<"context canceled">>)]_vars

(***************************************************************************)
(* C6: a watcher's fetch error is never what Run returns: a Run that       *)
(* returns from the exit-code loop returns what the final description      *)
(* alone decides, and the step in which a watcher fails changes neither    *)
(* Run's err, position and result nor any other watcher.                   *)
(***************************************************************************)
C6_Returned ==
    /\ Returned => \A i \in 1..Len(watchers) :
                      watchers[i].state = "failed" => result # watchers[i].err
    /\ (pc = "Done" /\ NonZero = {}) => result = Nil
    /\ (pc = "Done" /\ NonZero # {}) =>
          result = exitError(Final[Least(NonZero)].Name,
                             Final[Least(NonZero)].ExitCode[1])

C6_FailingStep ==
    \A i \in 1..Len(watchers) :
        (watchers[i].state = "watching" /\ watchers'[i].state = "failed") =>
            /\ \A j \in 1..Len(watchers) : j # i => watchers'[j] = watchers[j]
            /\ UNCHANGED <<pc, err, result, output, fin>>

C6_WatcherErrorsAreSwallowed == []C6_Returned /\ [][C6_FailingStep]_vars

\* Run returned success although one watcher failed, and the other watcher
\* went on to its finish message
C6_Witness ==
    /\ pc = "Done"
    /\ result = Nil
    /\ \E i, j \in 1..Len(watchers) :
          watchers[i].state = "failed" /\ watchers[j].state = "finished"

(***************************************************************************)
(* C7 as stated: whenever the final description holds a container that is  *)
(* stopped with no exit code and only a reason, Run fails with that         *)
(* container's reason.                                                      *)
(***************************************************************************)
NoExitCode(i) ==
    /\ Final[i].LastStatus = "STOPPED"
    /\ Final[i].ExitCode = <<>>
    /\ Len(Final[i].Reason) = 1

StreamOf(i) == logStreamName(streamPrefix, Final[i], FinalTask(i))

NoMarkerFor(i) == \A k \in 1..Len(written) : written[k].stream # StreamOf(i)

C7_AnyMissingExitCodeIsTheError ==
    \A i \in 1..Len(Final) :
        (NoExitCode(i) /\ Returned) =>
            /\ pc = "Failed"
            /\ result = Error(<<Final[i].Reason[1]>>)
            /\ NoMarkerFor(i)

(***************************************************************************)
(* C7, amended: a container of the final description that is stopped with  *)
(* no exit code and only a reason gets no finish message, and Run never    *)
(* reaches wg.Wait or                                                      *)
(* the exit-code loop; when Run has failed after writing the finish        *)
(* message of every container before it, its error is that container's     *)
(* reason word for word.                                                   *)
(***************************************************************************)
C7_MissingExitCodeStopsFinalizing ==
    \A i \in 1..Len(Final) :
        NoExitCode(i) =>
            /\ pc \notin {"Joining", "Aggregating", "Done"}
            /\ NoMarkerFor(i)
            /\ (pc = "Failed" /\ Len(written) = i - 1) =>
                   result = Error(<<Final[i].Reason[1]>>)

\* the second container has no exit code; the first one's finish message
\* was written and Run failed with the second one's reason
C7_Witness ==
    /\ pc = "Failed"
    /\ Len(Final) >= 2
    /\ NoExitCode(2)
    /\ Len(written) = 1
    /\ result = Error(<<Final[2].Reason[1]>>)

(***************************************************************************)
(* C8: when WaitUntilTasksStopped fails, Run returns that error in the     *)
(* same step; no DescribeTasks output exists and no finish message has     *)
(* been or will be written.                                                *)
(***************************************************************************)
PollError == BackendError("WaitUntilTasksStopped")

C8_PollFailed ==
    (pc = "Failed" /\ result = PollError) => (output = <<>> /\ written = <<>>)

C8_PollFailingStep ==
    /\ (pc = "AwaitingTermination" /\ err' = PollError) =>
          (pc' = "Failed" /\ result' = PollError)
    /\ pc = "Failed" => UNCHANGED <<pc, result, output, written>>

C8_PollErrorSkipsFinalization == []C8_PollFailed /\ [][C8_PollFailingStep]_vars

\* the poll failed although the task had stopped, with both watchers spawned
C8_Witness ==
    /\ pc = "Failed"
    /\ result = PollError
    /\ Len(watchers) >= 2
    /\ \A t \in 1..Len(ecsTasks) : ecsTasks[t].LastStatus = "STOPPED"

(***************************************************************************)
(* C9: with a bare name in the environment list that the host environment  *)
(* does not have, RunTask is never called, whatever the overrides are.     *)
(***************************************************************************)
IsBare(entry) == \A n \in 1..Len(entry) : entry[n] # "="

HasMissingBare ==
    \E k \in 1..Len(Environment) :
        IsBare(Environment[k]) /\ ~lookupEnv(Environment[k]).ok

C9_MissingEnvNeverSubmits ==
    HasMissingBare => ~runTaskCalled

(***************************************************************************)
(* C10 as stated: with an override that names no target and more than one  *)
(* container definition, the job is never submitted.                       *)
(***************************************************************************)
ManyDefinitions == Len(ContainerDefinitions) > 1

C10_AnyUntargetedOverrideFails ==
    (ManyDefinitions /\ \E k \in 1..Len(Overrides) : Overrides[k].Service = "") =>
        (~runTaskCalled /\ pc # "Submitting")

(***************************************************************************)
(* C10, amended: with an override that has a command and names no target,  *)
(* and more than one container definition, the job is never submitted; a   *)
(* Run that got as far as the overrides failed with the ambiguity error,   *)
(* or, when an earlier override with a command and a target met a bare     *)
(* name the host does not have, with the missing-variable error.           *)
(***************************************************************************)
Untargeted(k) == Overrides[k].Service = "" /\ Len(Overrides[k].Command) > 0

EarlyErrors ==
    {Error(<<"parse error">>), BackendError("CreateLogGroup"),
     BackendError("RegisterTaskDefinition")}

MissingErrors ==
    {Error(<<"missing environment variable">> \o Quoted(Environment[k])) :
         k \in {n \in 1..Len(Environment) :
                    IsBare(Environment[n]) /\ ~lookupEnv(Environment[n]).ok}}

C10_UntargetedCommandOverrideFails ==
    (ManyDefinitions /\ \E k \in 1..Len(Overrides) : Untargeted(k)) =>
        /\ ~runTaskCalled
        /\ pc # "Submitting"
        /\ (pc = "Failed" /\ result \notin EarlyErrors) =>
              \/ result = AmbiguousService(Len(ContainerDefinitions))
              \/ /\ result \in MissingErrors
                 /\ \E k, j \in 1..Len(Overrides) :
                       /\ j < k
                       /\ Untargeted(k)
                       /\ Overrides[j].Service # ""
                       /\ Len(Overrides[j].Command) > 0

\* two container definitions, an override with a command and no target:
\* Run failed with the ambiguity error
C10_Witness ==
    /\ ManyDefinitions
    /\ \E k \in 1..Len(Overrides) : Untargeted(k)
    /\ pc = "Failed"
    /\ result = AmbiguousService(Len(ContainerDefinitions))

(***************************************************************************)
(* C11: awsKeyValuePairForEnv of any list of entries.  An entry with an    *)
(* "=" yields the text before its first "=" and the text after it, and its *)
(* key is never handed to the lookup; a bare name the host has yields the  *)
(* host's value; the first bare name the host does not have makes the      *)
(* whole resolution fail with no pairs; otherwise there is one pair per    *)
(* entry, in the order of the entries, duplicates kept.  The overrides     *)
(* Run submits carry exactly these pairs.                                  *)
(***************************************************************************)
BareIdx == {k \in 1..Len(Environment) : IsBare(Environment[k])}
MissingIdx == {k \in BareIdx : ~lookupEnv(Environment[k]).ok}

\* the entries handed to the lookup: the bare ones, up to the first the
\* host does not have
LookedIdx == {k \in BareIdx : \A m \in MissingIdx : k <= m}

PairOf(entry, pair) ==
    IF IsBare(entry)
    THEN pair = [Name |-> entry, Value |-> lookupEnv(entry).value]
    ELSE \E i \in 1..Len(entry) :
            /\ entry[i] = "="
            /\ \A j \in 1..(i - 1) : entry[j] # "="
            /\ pair.Name = [j \in 1..(i - 1) |-> entry[j]]
            /\ pair.Value = [j \in 1..(Len(entry) - i) |-> entry[i + j]]

C11_EnvironmentResolution ==
    LET r == awsKeyValuePairForEnv(Environment)
    IN  /\ MissingIdx # {} =>
              /\ r.kvp = <<>>
              /\ r.err = Error(<<"missing environment variable">>
                               \o Quoted(Environment[Least(MissingIdx)]))
        /\ MissingIdx = {} =>
              /\ r.err = Nil
              /\ Len(r.kvp) = Len(Environment)
              /\ \A k \in 1..Len(Environment) : PairOf(Environment[k], r.kvp[k])
        /\ Len(r.lookups) = Cardinality(LookedIdx)
        /\ \A n \in 1..Len(r.lookups) :
              \E k \in LookedIdx :
                 /\ r.lookups[n] = Environment[k]
                 /\ Cardinality({m \in LookedIdx : m <= k}) = n
        /\ \A j \in 1..Len(runTaskInput) :
              MissingIdx = {} /\ runTaskInput[j].Environment = r.kvp

\* Run resolved the same entry twice, one with two "=", for an override it
\* is about to submit
C11_Witness ==
    /\ pc = "Submitting"
    /\ Environment = <<<<"F", "=", "b", "=", "r">>, <<"F", "=", "b", "=", "r">>>>
    /\ Len(runTaskInput) >= 1
    /\ runTaskInput[1].Environment =
           <<[Name |-> <<"F">>, Value |-> <<"b", "=", "r">>],
             [Name |-> <<"F">>, Value |-> <<"b", "=", "r">>]>>

(***************************************************************************)
(* C12: once the override loop is through, the container override          *)
(* submitted for an override that names no target names the sole           *)
(* container definition, and the one submitted for an override that names  *)
(* a target names that target, however many container definitions there    *)
(* are and whether or not one of them has that name.                       *)
(***************************************************************************)
WithCommand == {k \in 1..Len(Overrides) : Len(Overrides[k].Command) > 0}

\* where in the RunTask input the override declared at k is
Submitted(k) == Cardinality({n \in WithCommand : n <= k})

LoopDone == pc = "Submitting" \/ runTaskCalled

C12_TargetOfSubmittedOverride ==
    LoopDone =>
        \A k \in WithCommand :
            /\ Submitted(k) <= Len(runTaskInput)
            /\ Overrides[k].Service = "" =>
                  /\ Len(ContainerDefinitions) = 1
                  /\ runTaskInput[Submitted(k)].Name = ContainerDefinitions[1]
            /\ Overrides[k].Service # "" =>
                  runTaskInput[Submitted(k)].Name = Overrides[k].Service

\* one container definition, an override with no target and then one with
\* a target that is no container of the job: both were submitted
C12_Witness ==
    /\ runTaskCalled
    /\ ContainerDefinitions = <<Names[1]>>
    /\ Len(Overrides) = 2
    /\ Overrides[1].Service = "" /\ Overrides[2].Service = Names[2]
    /\ Len(runTaskInput) = 2
    /\ runTaskInput[1].Name = Names[1]
    /\ runTaskInput[2].Name = Names[2]

(***************************************************************************)
(* C13: once the override loop is through, the RunTask input holds one     *)
(* container override per declared override with a command, in the order   *)
(* of declaration: the one at each position has the target, the command    *)
(* and nothing but the command of the override it stands for, and one pair *)
(* per environment entry, in order; a container definition that no         *)
(* override with a command targets has no container override.              *)
(***************************************************************************)
TargetOf(k) ==
    IF Overrides[k].Service = "" THEN ContainerDefinitions[1]
    ELSE Overrides[k].Service

C13_OneOverridePerCommand ==
    LoopDone =>
        /\ Len(runTaskInput) = Cardinality(WithCommand)
        /\ \A k \in WithCommand :
              /\ runTaskInput[Submitted(k)].Name = TargetOf(k)
              /\ runTaskInput[Submitted(k)].Command = Overrides[k].Command
              /\ Len(runTaskInput[Submitted(k)].Environment) = Len(Environment)
              /\ \A e \in 1..Len(Environment) :
                    PairOf(Environment[e], runTaskInput[Submitted(k)].Environment[e])
        /\ \A d \in 1..Len(ContainerDefinitions) :
              (\A k \in WithCommand : TargetOf(k) # ContainerDefinitions[d]) =>
                  \A j \in 1..Len(runTaskInput) :
                      runTaskInput[j].Name # ContainerDefinitions[d]

\* two container definitions, two overrides for the second one with
\* different commands: two container overrides in the order of
\* declaration, each with its command and both resolved pairs, and none
\* for the first container
C13_Witness ==
    /\ pc = "Submitting"
    /\ ContainerDefinitions = <<Names[1], Names[2]>>
    /\ Overrides = <<[Service |-> Names[2], Command |-> <<"./seed", "all">>],
                     [Service |-> Names[2], Command |-> <<"./migrate">>]>>
    /\ Environment = <<<<"H">>, <<"F", "=", "b">>>>
    /\ runTaskInput =
           <<[Command |-> <<"./seed", "all">>,
              Name |-> Names[2],
              Environment |-> <<[Name |-> <<"H">>, Value |-> <<"/", "r">>],
                                [Name |-> <<"F">>, Value |-> <<"b">>]>>],
             [Command |-> <<"./migrate">>,
              Name |-> Names[2],
              Environment |-> <<[Name |-> <<"H">>, Value |-> <<"/", "r">>],
                                [Name |-> <<"F">>, Value |-> <<"b">>]>>]>>

(***************************************************************************)
(* C14: a finish message is written only after WaitUntilTasksStopped has   *)
(* returned success in this Run: while Run is anywhere before its          *)
(* DescribeTasks call no finish message has been written and no stream     *)
(* holds one; whenever one has been written every task of the run has      *)
(* stopped; and the only step that writes one is a step of the finalizing  *)
(* loop.                                                                   *)
(***************************************************************************)
BeforePollSuccess ==
    pc \in {"Parsing", "CreatingLogGroup", "Registering", "Resolving",
            "Submitting", "Running", "Starting", "AwaitingTermination"}

\* the finish messages writeContainerFinishedMessage can write for a container
MarkersOf(container) ==
    {finishedPrefix(Base(container.ContainerArn)) \o Itoa(n) : n \in 0..MaxExit}

\* the stream of the container at (t, c) holds a finish message of its own
MarkerExists(t, c) ==
    \E n \in 1..Len(Events(logStreamName(streamPrefix, ecsTasks[t].Containers[c], ecsTasks[t]))) :
        Events(logStreamName(streamPrefix, ecsTasks[t].Containers[c], ecsTasks[t]))[n]
            \in MarkersOf(ecsTasks[t].Containers[c])

C14_NoMarkerYet ==
    /\ BeforePollSuccess =>
          /\ written = <<>>
          /\ \A t \in 1..Len(ecsTasks) :
                \A c \in 1..Len(ecsTasks[t].Containers) : ~MarkerExists(t, c)
    /\ written # <<>> =>
          \A t \in 1..Len(ecsTasks) : ecsTasks[t].LastStatus = "STOPPED"

C14_WritingStep ==
    written' # written =>
        /\ pc = "Finalizing"
        /\ err = Nil
        /\ \A t \in 1..Len(ecsTasks) : ecsTasks[t].LastStatus = "STOPPED"

C14_MarkerOnlyAfterPollSuccess == []C14_NoMarkerYet /\ [][C14_WritingStep]_vars

\* two tasks, both stopped, the poll returned and the first task's
\* container has its finish message while the second is still to get one
C14_Witness ==
    /\ pc = "Finalizing"
    /\ Len(ecsTasks) = 2
    /\ Len(written) = 1
    /\ MarkerExists(1, 1)
    /\ ~MarkerExists(2, 1)

(***************************************************************************)
(* C15: a watcher with Run's Printer, on any sequence of entries: when the *)
(* first entry that starts with "Container <id> exited with" is at         *)
(* position i, the watcher prints the i-1 entries before it, in order,     *)
(* does not print that entry, and stops there; what follows that entry     *)
(* changes nothing, and a watcher that has stopped stays as it is.         *)
(***************************************************************************)
EntriesOf(i) == Events(watchers[i].LogStreamName)

\* positions of the entries of watcher i's stream that start with the
\* finish prefix of its container
SentinelsOf(i) ==
    {n \in 1..Len(EntriesOf(i)) :
        HasPrefix(EntriesOf(i)[n], finishedPrefix(watchers[i].containerId))}

C15_Tailed ==
    \A i \in 1..Len(watchers) :
        /\ watchers[i].next <= Len(EntriesOf(i)) + 1
        /\ watchers[i].printed = [n \in 1..(watchers[i].next - 1) |-> EntriesOf(i)[n]]
        /\ \A n \in SentinelsOf(i) : watchers[i].next <= n
        /\ watchers[i].state = "finished" =>
              /\ SentinelsOf(i) # {}
              /\ watchers[i].next = Least(SentinelsOf(i))

C15_StoppedForGood ==
    \A i \in 1..Len(watchers) :
        watchers[i].state = "finished" => watchers'[i] = watchers[i]

C15_StopsAtFirstSentinel == []C15_Tailed /\ [][C15_StoppedForGood]_vars

\* the sentinel is the second of four entries: the watcher printed the
\* first entry and stopped, with two entries behind the sentinel
C15_Witness ==
    /\ Len(watchers) = 1
    /\ watchers[1].state = "finished"
    /\ Len(EntriesOf(1)) = 4
    /\ Least(SentinelsOf(1)) = 2
    /\ watchers[1].next = 2
    /\ watchers[1].printed = <<EntriesOf(1)[1]>>

(***************************************************************************)
(* C16: Run starts exactly one watcher for every container of the RunTask  *)
(* response, one after the other in the order of the response, between the *)
(* RunTask response and the poll: before RunTask has returned there is no  *)
(* watcher, and when the poll begins there is one per container.  Each     *)
(* watcher is counted on the WaitGroup before its goroutine starts, and    *)
(* the WaitGroup counts every watcher that has not returned.  When         *)
(* RegisterTaskDefinition or RunTask fails there is no watcher and no      *)
(* finish message.                                                         *)
(***************************************************************************)
\* the containers of the RunTask response, in enumeration order
RunContainers == [i \in 1..Len(Pairs(runResp)) |->
                  runResp[Pairs(runResp)[i][1]].Containers[Pairs(runResp)[i][2]]]

BeforeSpawn ==
    pc \in {"Parsing", "CreatingLogGroup", "Registering", "Resolving",
            "Submitting"}

InSpawnLoop == pc \in {"Running", "Starting"}

PastSpawn ==
    pc \in {"AwaitingTermination", "Describing", "Finalizing", "Joining",
            "Aggregating", "Done"}

\* the watchers so far are those of the first containers, one each
OneWatcherPerContainer ==
    /\ Len(watchers) <= Len(RunContainers)
    /\ \A i \in 1..Len(watchers) :
          watchers[i].containerId = RunContainers[i].ContainerArn[Len(RunContainers[i].ContainerArn)]
    /\ \A i, j \in 1..Len(watchers) :
          i # j => watchers[i].containerId # watchers[j].containerId

SubmissionErrors ==
    {BackendError("RegisterTaskDefinition"),
     Error(<<"Unable to run task:">> \o BackendError("RunTask").msg)}

Watching == {i \in 1..Len(watchers) : watchers[i].state = "watching"}

C16_Watchers ==
    /\ BeforeSpawn => (watchers = <<>> /\ wg = 0)
    /\ OneWatcherPerContainer
    /\ pc = "Starting" => Len(watchers) < Len(RunContainers)
    /\ PastSpawn => (runTaskCalled /\ RunContainers # <<>>)
    /\ (~InSpawnLoop /\ watchers # <<>>) => Len(watchers) = Len(RunContainers)
    /\ (PastSpawn \/ (pc = "Panicked")) => Len(watchers) = Len(RunContainers)
    /\ wg = Cardinality(Watching) + (IF pc = "Starting" THEN 1 ELSE 0)
    /\ (pc = "Failed" /\ result \in SubmissionErrors) =>
          (watchers = <<>> /\ wg = 0 /\ written = <<>>)

C16_SpawningStep ==
    /\ Len(watchers') # Len(watchers) =>
          /\ Len(watchers') = Len(watchers) + 1
          /\ \A i \in 1..Len(watchers) : watchers'[i] = watchers[i]
          /\ watchers'[Len(watchers')].state = "watching"
          /\ pc = "Starting" /\ pc' = "Running"
          /\ runTaskCalled /\ err = Nil
          /\ wg = Cardinality(Watching) + 1
          /\ wg' = wg
    /\ (pc # "AwaitingTermination" /\ pc' = "AwaitingTermination") =>
          /\ pc = "Running"
          /\ Len(watchers) = Len(RunContainers)
          /\ watchers' = watchers

C16_OneWatcherPerContainer == []C16_Watchers /\ [][C16_SpawningStep]_vars

\* one task with two containers: the first container's watcher has printed
\* a line, the second container is counted on the WaitGroup and its
\* watcher is about to start
C16_Witness ==
    /\ pc = "Starting"
    /\ Len(runResp) = 1
    /\ Len(RunContainers) = 2
    /\ Len(watchers) = 1
    /\ Len(watchers[1].printed) = 1
    /\ wg = 2

(***************************************************************************)
(* C17: every finish message goes to the stream that the watcher of the    *)
(* same container reads: both stream names are the prefix of this run, the *)
(* container's name and the last segment of the task ARN; the prefix is    *)
(* r.TaskName, or the generated one when r.TaskName is empty, and does not *)
(* change once it is set; and the message is in that stream.               *)
(***************************************************************************)
RunPrefix == IF TaskName = "" THEN "run_task_1" ELSE TaskName

\* the task of the RunTask response that the i-th watcher's container is of
RunTaskOf(i) == runResp[Pairs(runResp)[i][1]]

C17_Streams ==
    /\ pc \notin {"Parsing", "Failed"} => streamPrefix = RunPrefix
    /\ \A i \in 1..Len(watchers) :
          watchers[i].LogStreamName =
              <<RunPrefix, RunContainers[i].Name,
                RunTaskOf(i).TaskArn[Len(RunTaskOf(i).TaskArn)]>>
    /\ \A k \in 1..Len(written) :
          /\ written[k].stream =
                 <<RunPrefix, Final[k].Name,
                   FinalTask(k).TaskArn[Len(FinalTask(k).TaskArn)]>>
          /\ \E i \in 1..Len(watchers) :
                /\ watchers[i].containerId =
                       Final[k].ContainerArn[Len(Final[k].ContainerArn)]
                /\ watchers[i].LogStreamName = written[k].stream
          /\ \E n \in 1..Len(Events(written[k].stream)) :
                Events(written[k].stream)[n] = written[k].message

C17_PrefixIsSetOnce ==
    pc # "Parsing" => streamPrefix' = streamPrefix

C17_WriterAndWatcherShareTheStream == []C17_Streams /\ [][C17_PrefixIsSetOnce]_vars

\* a run without a name, two tasks: both finish messages were written and
\* each watcher found the one of its container
C17_Witness ==
    /\ TaskName = ""
    /\ Len(output) = 2
    /\ Len(written) = 2
    /\ Len(watchers) = 2
    /\ \A i \in 1..Len(watchers) :
          /\ watchers[i].state = "finished"
          /\ EntriesOf(i)[watchers[i].next] = written[i].message

(***************************************************************************)
(* C18: no container gets a second finish message: no two messages Run has *)
(* written went to the same stream and no stream holds two; when Run is    *)
(* at wg.Wait or beyond, every container of the final description has      *)
(* exactly one, its own; and for a container whose status is not STOPPED   *)
(* writeContainerFinishedMessage writes nothing and Run returns the        *)
(* "expected container to be STOPPED" error.                               *)
(***************************************************************************)
\* the finish messages Run has written to the stream of Final[i]
WrittenFor(i) == {k \in 1..Len(written) : written[k].stream = StreamOf(i)}

\* the entries of the stream of Final[i] that are finish messages of Final[i]
MarkersIn(i) ==
    {n \in 1..Len(Events(StreamOf(i))) : Events(StreamOf(i))[n] \in MarkersOf(Final[i])}

NotStoppedError(container) ==
    Error(<<"expected container to be STOPPED, got", container.LastStatus>>)

C18_Markers ==
    /\ \A k, l \in 1..Len(written) : k # l => written[k].stream # written[l].stream
    /\ \A i \in 1..Len(Final) :
          /\ Cardinality(WrittenFor(i)) <= 1
          /\ Cardinality(MarkersIn(i)) = Cardinality(WrittenFor(i))
          /\ pc \in {"Joining", "Aggregating", "Done"} =>
                /\ Cardinality(WrittenFor(i)) = 1
                /\ \A k \in WrittenFor(i) :
                      written[k].message =
                          <<"Container", Final[i].ContainerArn[Len(Final[i].ContainerArn)],
                            "exited with">> \o Itoa(Final[i].ExitCode[1])
          /\ Final[i].LastStatus # "STOPPED" =>
                /\ WrittenFor(i) = {}
                /\ pc \notin {"Joining", "Aggregating", "Done"}
                /\ (pc = "Failed" /\ Len(written) = i - 1) =>
                       result = NotStoppedError(Final[i])

C18_RefusingStep ==
    (pc = "Finalizing" /\ FinContainer.LastStatus # "STOPPED" /\ pc' # pc) =>
        /\ pc' = "Failed"
        /\ result' = NotStoppedError(FinContainer)
        /\ UNCHANGED <<written, streams>>

C18_OneMarkerPerContainer == []C18_Markers /\ [][C18_RefusingStep]_vars

\* Run is at wg.Wait with two containers described, each with its one
\* finish message, and one of them has logged a line of its own
C18_Witness ==
    /\ pc = "Joining"
    /\ Len(Final) = 2
    /\ logged = 1
    /\ \A i \in 1..Len(Final) :
          Cardinality(WrittenFor(i)) = 1 /\ Cardinality(MarkersIn(i)) = 1
    /\ \E i \in 1..Len(Final) : Len(Events(StreamOf(i))) = 2

(***************************************************************************)
(* C19: with several watchers running, each one's Printer tests for the    *)
(* finish prefix of the container it was started for: a watcher stops only *)
(* at an entry that starts with its own container's prefix, never prints   *)
(* such an entry, and prints an entry that starts with another container's *)
(* prefix like any other line and keeps watching.                          *)
(***************************************************************************)
OwnId(i) == RunContainers[i].ContainerArn[Len(RunContainers[i].ContainerArn)]

OwnMarker(i, entry) == HasPrefix(entry, <<"Container", OwnId(i), "exited with">>)

OthersMarker(i, entry) ==
    \E j \in 1..Len(RunContainers) : j # i /\ OwnMarker(j, entry)

C19_OwnPredicate ==
    \A i \in 1..Len(watchers) :
        /\ watchers[i].containerId = OwnId(i)
        /\ \A n \in 1..Len(watchers[i].printed) : ~OwnMarker(i, watchers[i].printed[n])
        /\ watchers[i].state = "finished" =>
              /\ watchers[i].next <= Len(EntriesOf(i))
              /\ OwnMarker(i, EntriesOf(i)[watchers[i].next])
        /\ \A n \in 1..Len(EntriesOf(i)) :
              (n < watchers[i].next /\ OthersMarker(i, EntriesOf(i)[n])) =>
                  (n <= Len(watchers[i].printed) /\ watchers[i].printed[n] = EntriesOf(i)[n])

C19_WatcherStep ==
    \A i \in 1..Len(watchers) :
        (/\ watchers[i].state = "watching"
         /\ watchers[i].next <= Len(EntriesOf(i))
         /\ OthersMarker(i, EntriesOf(i)[watchers[i].next])
         /\ watchers'[i] # watchers[i]
         /\ watchers'[i].state \notin {"failed", "cancelled"}) =>
            /\ watchers'[i].state = "watching"
            /\ watchers'[i].next = watchers[i].next + 1
            /\ watchers'[i].printed =
                   Append(watchers[i].printed, EntriesOf(i)[watchers[i].next])

C19_PredicateBoundToOwnContainer == []C19_OwnPredicate /\ [][C19_WatcherStep]_vars

\* two watchers: one printed a line with the other container's finish
\* text and went on to stop at its own finish message, while the other is
\* still watching
C19_Witness ==
    /\ Len(watchers) = 2
    /\ \E i, j \in 1..Len(watchers) :
          /\ i # j
          /\ watchers[i].state = "finished"
          /\ Len(watchers[i].printed) = 1
          /\ OwnMarker(j, watchers[i].printed[1])
          /\ OwnMarker(i, EntriesOf(i)[2])
          /\ watchers[j].state = "watching"

(***************************************************************************)
(* C20: when Run is at wg.Wait, at the exit-code loop or has returned from *)
(* it, the finalizing loop has passed every container of the description   *)
(* and every one of them has an exit code, so the exit-code loop never     *)
(* dereferences a missing one; and the description does not change from    *)
(* the finalizing loop to the exit-code loop.                              *)
(***************************************************************************)
C20_ExitCodesPresent ==
    pc \in {"Joining", "Aggregating", "Done"} =>
        /\ fin = Len(Final)
        /\ \A i \in 1..Len(Final) : Len(Final[i].ExitCode) = 1

C20_SameDescription ==
    pc \in {"Finalizing", "Joining", "Aggregating"} => output' = output

C20_AggregationReadsNoMissingExitCode ==
    []C20_ExitCodesPresent /\ [][C20_SameDescription]_vars

\* Run is at the exit-code loop, which has to read past a zero exit code
\* to find the second container's
C20_Witness ==
    /\ pc = "Aggregating"
    /\ Len(Final) = 2
    /\ Final[1].ExitCode = <<0>>
    /\ Final[2].ExitCode = <<MaxExit>>

====
